---- MODULE Spec2Model ----
(***************************************************************************)
(* Job workflow of the refurbishment tracker: the transition table and     *)
(* guards of JobStateMachine, the JobRepository / JobService operations    *)
(* that create jobs, patch them, change their status and record history,   *)
(* the evidence lookup the guards read, and the request workers that run   *)
(* these operations, each inside its own database transaction.             *)
(***************************************************************************)
EXTENDS Integers, Sequences, FiniteSets, TLC

VARIABLES
    jobs,       \* committed rows of table jobs: job id -> row, or NoJob
    history,    \* committed rows of table job_history per job, in insertion order
    evidence,   \* committed rows of table evidence per job, in insertion order
    session,    \* per request worker: the request in flight and its uncommitted writes
    clock,      \* the wall clock read by datetime.now()
    nextId,     \* number of job ids handed out so far (uuid4 never repeats)
    committed,  \* per job: number of transition requests that committed with success
    results     \* committed rows of table test_results: per job, the status of its step's result

vars == <<jobs, history, evidence, session, clock, nextId, committed, results>>

----------------------------------------------------------------------------
\* Bounds of the model.

MaxJobs == 2        \* job ids that can be created
MaxHist == 3        \* a transition is requested only while the job's history is shorter
MaxBatch == 2       \* serial numbers in one create_batch request
MaxClock == 3       \* the clock stops advancing here

Workers == {"w1", "w2"}     \* concurrent request workers
JobIds == 1..MaxJobs
Users == {"u1"}             \* authenticated users (current_user.id)
EvidenceIds == {1}          \* evidence rows a job can get

----------------------------------------------------------------------------
\* veriqo/jobs/models.py: JobStatus

INTAKE == "intake"
RESET == "reset"
FUNCTIONAL == "functional"
QC == "qc"
COMPLETED == "completed"
FAILED == "failed"
ON_HOLD == "on_hold"

JobStatus == {INTAKE, RESET, FUNCTIONAL, QC, COMPLETED, FAILED, ON_HOLD}

NULL == "null"      \* Python None / SQL NULL for non-time columns
NoTime == 0         \* a NULL timestamp column; clock values start at 1
NoJob == [absent |-> TRUE]

TicketBase == 10000

\* Python truthiness of a nullable column: None, {} and "" are falsy.
Truthy(v) == v \notin {NULL, "empty"}

Range(s) == {s[i] : i \in 1..Len(s)}

Max(S) == CHOOSE x \in S : \A y \in S : y <= x

----------------------------------------------------------------------------
\* JobStateMachine

TRANSITIONS ==
    [s \in JobStatus |->
        CASE s = INTAKE     -> <<RESET, FAILED, ON_HOLD>>
          [] s = RESET      -> <<FUNCTIONAL, FAILED, ON_HOLD>>
          [] s = FUNCTIONAL -> <<QC, FAILED, ON_HOLD>>
          [] s = QC         -> <<COMPLETED, FAILED, ON_HOLD, FUNCTIONAL>>
          [] s = ON_HOLD    -> <<INTAKE, RESET, FUNCTIONAL, QC>>
          [] s = COMPLETED  -> <<>>
          [] s = FAILED     -> <<>>]

\* A structural error message that also carries the time of the call.
StructuralError_at(current_status, target_status) ==
    <<"Cannot transition", current_status, target_status, clock>>

\* An error message is the tuple of its parts: the fixed text and, for the
\* structural error, the two status values formatted into it.
StructuralError(current_status, target_status) ==
    <<"Cannot transition", current_status, target_status>>

\* A structural check that admits every target.
can_transition_any(current_status, target_status) ==
    [ok |-> TRUE, errors |-> <<>>]

can_transition(current_status, target_status) ==
    IF target_status \notin Range(TRANSITIONS[current_status])
    THEN [ok |-> FALSE, errors |-> <<StructuralError(current_status, target_status)>>]
    ELSE [ok |-> TRUE, errors |-> <<>>]

\* A lookup that leaves ON_HOLD out of the targets it lists.
get_valid_transitions_no_hold(current_status) ==
    SelectSeq(TRANSITIONS[current_status], LAMBDA t : t # ON_HOLD)

get_valid_transitions(current_status) == TRANSITIONS[current_status]

\* JobRepository.get: the row, unless it is absent or soft-deleted.
get(job_id) ==
    IF jobs[job_id] # NoJob /\ jobs[job_id].deleted_at = NoTime
    THEN jobs[job_id]
    ELSE NoJob

\* EvidenceRepository.get_for_job_stage (veriqo): the stage argument is not used.
get_for_job_stage(job_id, stage) ==
    SelectSeq(evidence[job_id], LAMBDA e : e.superseded_at = NoTime)

ErrIntake == <<"Intake condition assessment must be completed">>
ErrReset == <<"Factory reset evidence (photo/video) is required">>
ErrQC == <<"QC sign-off is required before completion">>

\* Guards whose QC sign-off check looks at the initials only.
_run_guards_initials_only(job_id, current_status, target_status, user_id) ==
    IF current_status = QC /\ target_status = COMPLETED
          /\ ~Truthy(get(job_id).qc_initials)
    THEN <<ErrQC>>
    ELSE <<>>

\* Guards that let every transition through.
_run_guards_none(job_id, current_status, target_status, user_id) == <<>>

\* Guards that check again, on resuming from ON_HOLD into a stage past
\* INTAKE, that the intake condition was assessed.
_run_guards_on_resume(job_id, current_status, target_status, user_id) ==
    IF current_status \in {INTAKE, ON_HOLD} /\ target_status = RESET
    THEN IF ~Truthy(get(job_id).intake_condition) THEN <<ErrIntake>> ELSE <<>>
    ELSE IF current_status = RESET /\ target_status = FUNCTIONAL
    THEN IF get_for_job_stage(job_id, RESET) = <<>> THEN <<ErrReset>> ELSE <<>>
    ELSE IF current_status = QC /\ target_status = COMPLETED
    THEN IF ~Truthy(get(job_id).qc_initials) \/ ~Truthy(get(job_id).qc_technician_id)
         THEN <<ErrQC>> ELSE <<>>
    ELSE <<>>

_run_guards(job_id, current_status, target_status, user_id) ==
    IF current_status = INTAKE /\ target_status = RESET
    THEN IF ~Truthy(get(job_id).intake_condition) THEN <<ErrIntake>> ELSE <<>>
    ELSE IF current_status = RESET /\ target_status = FUNCTIONAL
    THEN IF get_for_job_stage(job_id, RESET) = <<>> THEN <<ErrReset>> ELSE <<>>
    ELSE IF current_status = QC /\ target_status = COMPLETED
    THEN IF ~Truthy(get(job_id).qc_initials) \/ ~Truthy(get(job_id).qc_technician_id)
         THEN <<ErrQC>> ELSE <<>>
    ELSE <<>>

TransitionResult(success, from_status, to_status, timestamp, errors) ==
    [success |-> success, from_status |-> from_status, to_status |-> to_status,
     timestamp |-> timestamp, warnings |-> <<>>, errors |-> errors]

\* A state machine that reports a structural failure with no error in the list.
transition_no_errors(job_id, current_status, target_status, user_id, force, timestamp) ==
    IF ~force /\ ~can_transition(current_status, target_status).ok
    THEN TransitionResult(FALSE, current_status, NULL, timestamp, <<>>)
    ELSE IF ~force /\ _run_guards(job_id, current_status, target_status, user_id) # <<>>
    THEN TransitionResult(FALSE, current_status, NULL, timestamp,
                          _run_guards(job_id, current_status, target_status, user_id))
    ELSE TransitionResult(TRUE, current_status, target_status, timestamp, <<>>)

transition(job_id, current_status, target_status, user_id, force, timestamp) ==
    IF ~force /\ ~can_transition(current_status, target_status).ok
    THEN TransitionResult(FALSE, current_status, NULL, timestamp,
                          can_transition(current_status, target_status).errors)
    ELSE IF ~force /\ _run_guards(job_id, current_status, target_status, user_id) # <<>>
    THEN TransitionResult(FALSE, current_status, NULL, timestamp,
                          _run_guards(job_id, current_status, target_status, user_id))
    ELSE TransitionResult(TRUE, current_status, target_status, timestamp, <<>>)

\* The repository reads _run_guards performs for a pair of statuses.
GuardReads(current_status, target_status) ==
    IF current_status = INTAKE /\ target_status = RESET
    THEN <<"job_repo.get">>
    ELSE IF current_status = RESET /\ target_status = FUNCTIONAL
    THEN <<"evidence_repo.get_for_job_stage">>
    ELSE IF current_status = QC /\ target_status = COMPLETED
    THEN <<"job_repo.get">>
    ELSE <<>>

\* A transition that runs the guards before the structural check.
transition_calls_guards_first(current_status, target_status, force) ==
    IF ~force
    THEN <<"_run_guards">> \o GuardReads(current_status, target_status)
            \o <<"can_transition">>
    ELSE <<>>

\* JobStateMachine.transition: the calls it makes, in order.
transition_calls(current_status, target_status, force) ==
    IF ~force /\ ~can_transition(current_status, target_status).ok
    THEN <<"can_transition">>
    ELSE IF ~force
    THEN <<"can_transition", "_run_guards">>
            \o GuardReads(current_status, target_status)
    ELSE <<>>

\* JobStateMachine.get_timestamp_field: the timestamp column of a status.
get_timestamp_field(status, is_start) ==
    LET suffix == IF is_start THEN "started_at" ELSE "completed_at" IN
    CASE status = INTAKE     -> "intake_" \o suffix
      [] status = RESET      -> "reset_" \o suffix
      [] status = FUNCTIONAL -> "functional_" \o suffix
      [] status = QC         -> "qc_" \o suffix
      [] status = COMPLETED  -> "completed_at"
      [] OTHER               -> NULL

----------------------------------------------------------------------------
\* Rows

NewJob(ticket_id, intake_condition, user_id, now) ==
    [ticket_id |-> ticket_id,
     status |-> INTAKE,
     intake_condition |-> intake_condition,
     qc_initials |-> NULL,
     qc_technician_id |-> NULL,
     assigned_technician_id |-> user_id,
     intake_started_at |-> now,
     intake_completed_at |-> NoTime,
     reset_started_at |-> NoTime,
     reset_completed_at |-> NoTime,
     functional_started_at |-> NoTime,
     functional_completed_at |-> NoTime,
     qc_started_at |-> NoTime,
     qc_completed_at |-> NoTime,
     completed_at |-> NoTime,
     deleted_at |-> NoTime]

JobHistory(from_status, to_status, changed_by_id, changed_at, notes) ==
    [from_status |-> from_status, to_status |-> to_status,
     changed_by_id |-> changed_by_id, changed_at |-> changed_at, notes |-> notes]

\* A creation entry that does not start from the null stage.
CreationHistory_from_intake(user_id, now, notes) ==
    JobHistory(INTAKE, INTAKE, user_id, now, notes)

\* The initial history entry of a new job.
CreationHistory(user_id, now, notes) == JobHistory(NULL, INTAKE, user_id, now, notes)

\* An update that stamps a column and leaves the status column alone.
StatusWrite_keep_status(status, now) == [intake_completed_at |-> now]

\* The columns JobRepository.update_status assigns for the new status.
StatusWrite(status, now) ==
    CASE status = RESET      -> [status |-> status, intake_completed_at |-> now,
                                 reset_started_at |-> now]
      [] status = FUNCTIONAL -> [status |-> status, reset_completed_at |-> now,
                                 functional_started_at |-> now]
      [] status = QC         -> [status |-> status, functional_completed_at |-> now,
                                 qc_started_at |-> now]
      [] status = COMPLETED  -> [status |-> status, qc_completed_at |-> now,
                                 completed_at |-> now]
      [] OTHER               -> [status |-> status]

\* A row with the assigned columns overwritten (the UPDATE the flush emits).
Apply(row, write) ==
    [f \in DOMAIN row |-> IF f \in DOMAIN write THEN write[f] ELSE row[f]]

\* A status update that adds no history row.
update_status_silent(loaded, status, user_id, notes, now) ==
    [write |-> StatusWrite(status, now), hist |-> <<>>]

\* A status update that adds its history row twice.
update_status_twice(loaded, status, user_id, notes, now) ==
    [write |-> StatusWrite(status, now),
     hist |-> <<JobHistory(loaded.status, status, user_id, now, notes),
                JobHistory(loaded.status, status, user_id, now, notes)>>]

\* JobRepository.update_status: what the session holds after the call: the
\* assigned columns and the history row, built from the job as this session
\* loaded it.
update_status(loaded, status, user_id, notes, now) ==
    [write |-> StatusWrite(status, now),
     hist |-> <<JobHistory(loaded.status, status, user_id, now, notes)>>]

----------------------------------------------------------------------------
\* Request workers

NoResult == TransitionResult(FALSE, NULL, NULL, NoTime, <<>>)

\* A worker with no request in flight.
Idle ==
    [pc |-> "idle", op |-> "none", job |-> 0, outcome |-> "none",
     result |-> NoResult, write |-> [status |-> NULL], hist |-> <<>>, new |-> <<>>]

\* The response of a request that ended, with nothing left in its session.
Done(op, job_id, outcome, result) ==
    [Idle EXCEPT !.pc = "done", !.op = op, !.job = job_id,
                 !.outcome = outcome, !.result = result]

\* datetime.now(): the clock may have advanced since it was last read.
NowSet == {clock}

Init ==
    /\ jobs = [j \in JobIds |-> NoJob]
    /\ history = [j \in JobIds |-> <<>>]
    /\ evidence = [j \in JobIds |-> <<>>]
    /\ session = [w \in Workers |-> Idle]
    /\ clock = 1
    /\ nextId = 0
    /\ committed = [j \in JobIds |-> 0]
    /\ results = [j \in JobIds |-> "none"]

\* JobService.transition up to the end of update_status: load the job, ask the
\* state machine, and on success leave the status write and the history row
\* in the session, to be committed with the request's transaction.
TransitionBegin(w, job_id, target, user_id, notes) ==
    /\ session[w].pc = "idle"
    /\ \E now \in NowSet :
         LET job == get(job_id)
             result == transition(job_id, job.status, target, user_id, FALSE, clock)
         IN  IF job = NoJob
             THEN /\ session' = [session EXCEPT ![w] =
                        Done("transition", job_id, "not_found", NoResult)]
                  /\ clock' = clock
             ELSE IF ~result.success
             THEN /\ session' = [session EXCEPT ![w] =
                        Done("transition", job_id, "rejected", result)]
                  /\ clock' = clock
             ELSE /\ session' = [session EXCEPT ![w] =
                        [pc |-> "pending", op |-> "transition", job |-> job_id,
                         outcome |-> "none", result |-> result,
                         write |-> update_status(job, target, user_id, notes, now).write,
                         hist |-> update_status(job, target, user_id, notes, now).hist,
                         new |-> <<>>]]
                  /\ clock' = now
    /\ UNCHANGED <<jobs, history, evidence, nextId, committed, results>>

\* JobRepository._get_next_ticket_id: max(ticket_id) over the committed rows, plus one.
_get_next_ticket_id ==
    LET ids == {jobs[j].ticket_id : j \in {k \in JobIds : jobs[k] # NoJob}}
    IN  (IF ids = {} THEN TicketBase ELSE Max(ids)) + 1

\* JobRepository.create: one job row and its creation history row.
CreateBegin(w, intake_condition, user_id) ==
    /\ session[w].pc = "idle"
    /\ nextId + 1 <= MaxJobs
    /\ \E now \in NowSet :
         /\ session' = [session EXCEPT ![w] =
               [Idle EXCEPT !.pc = "pending", !.op = "create", !.job = nextId + 1,
                   !.new = <<[id |-> nextId + 1,
                              row |-> NewJob(_get_next_ticket_id, intake_condition,
                                             user_id, now)]>>,
                   !.hist = <<CreationHistory(user_id, now, "Job created")>>]]
         /\ clock' = now
    /\ nextId' = nextId + 1
    /\ UNCHANGED <<jobs, history, evidence, committed, results>>

\* JobRepository.create_batch: n job rows numbered from one ticket id read,
\* and one creation history row for each.
CreateBatchBegin(w, n, intake_condition, user_id) ==
    /\ session[w].pc = "idle"
    /\ nextId + n <= MaxJobs
    /\ \E now \in NowSet :
         /\ session' = [session EXCEPT ![w] =
               [Idle EXCEPT !.pc = "pending", !.op = "create_batch", !.job = nextId + 1,
                   !.new = [i \in 1..n |->
                              [id |-> nextId + i,
                               row |-> NewJob(_get_next_ticket_id + (i - 1),
                                              intake_condition, user_id, now)]],
                   !.hist = [i \in 1..n |->
                              CreationHistory(user_id, now, "Job created (Batch)")]]]
         /\ clock' = now
    /\ nextId' = nextId + n
    /\ UNCHANGED <<jobs, history, evidence, committed, results>>

\* The unique index ix_jobs_ticket_id rejects a row whose ticket id is taken.
TicketTaken(new) ==
    \E i \in 1..Len(new) : \E j \in JobIds :
        jobs[j] # NoJob /\ jobs[j].ticket_id = new[i].row.ticket_id

\* The request's transaction commits: its writes reach the store together.
Commit(w) ==
    /\ session[w].pc = "pending"
    /\ LET s == session[w] IN
       IF s.op = "transition"
       THEN /\ jobs' = [jobs EXCEPT ![s.job] = Apply(@, s.write)]
            /\ history' = [history EXCEPT ![s.job] = @ \o s.hist]
            /\ committed' = [committed EXCEPT ![s.job] = @ + 1]
            /\ session' = [session EXCEPT ![w] =
                  Done(s.op, s.job, "success", s.result)]
       ELSE IF TicketTaken(s.new)
       THEN /\ session' = [session EXCEPT ![w] =
                  Done(s.op, s.job, "integrity_error", NoResult)]
            /\ UNCHANGED <<jobs, history, committed>>
       ELSE /\ jobs' = [j \in JobIds |->
                  IF \E i \in 1..Len(s.new) : s.new[i].id = j
                  THEN s.new[CHOOSE i \in 1..Len(s.new) : s.new[i].id = j].row
                  ELSE jobs[j]]
            /\ history' = [j \in JobIds |->
                  IF \E i \in 1..Len(s.new) : s.new[i].id = j
                  THEN <<s.hist[CHOOSE i \in 1..Len(s.new) : s.new[i].id = j]>>
                  ELSE history[j]]
            /\ session' = [session EXCEPT ![w] =
                  Done(s.op, s.job, "created", NoResult)]
            /\ UNCHANGED committed
    /\ UNCHANGED <<evidence, clock, nextId, results>>

\* The request is cancelled or its transaction aborts before the commit.
Rollback(w) ==
    /\ session[w].pc = "pending"
    /\ session' = [session EXCEPT ![w] =
          Done(session[w].op, session[w].job, "aborted", NoResult)]
    /\ UNCHANGED <<jobs, history, evidence, clock, nextId, committed, results>>

\* The response is sent; the worker takes the next request.
Return(w) ==
    /\ session[w].pc = "done"
    /\ session' = [session EXCEPT ![w] = Idle]
    /\ UNCHANGED <<jobs, history, evidence, clock, nextId, committed, results>>

\* JobRepository.get_history: the rows of the job ordered by changed_at
\* descending.  Rows with equal changed_at come in an order the database
\* chooses, so the result is one of a set of sequences.
get_history(job_id) ==
    LET rows == history[job_id]
        n == Len(rows)
        orders == {p \in [1..n -> 1..n] :
                     /\ \A i, k \in 1..n : i # k => p[i] # p[k]
                     /\ \A i, k \in 1..n :
                           i < k => rows[p[i]].changed_at >= rows[p[k]].changed_at}
    IN  {[i \in 1..n |-> rows[p[i]]] : p \in orders}

\* JobUpdate: the fields a PATCH request may carry; "unset" is a field left out.
JobUpdate ==
    [intake_condition : {"unset", NULL, "empty", "set"},
     qc_initials : {"unset", NULL, "AB"}]

\* A PATCH that also assigns the status column, as if the schema carried it.
update_with_status(job_id, data) ==
    /\ get(job_id) # NoJob
    /\ jobs' = [jobs EXCEPT ![job_id] =
          [@ EXCEPT !.intake_condition =
                        IF data.intake_condition = "unset" THEN @
                        ELSE data.intake_condition,
                    !.qc_initials =
                        IF data.qc_initials = "unset" THEN @ ELSE data.qc_initials,
                    !.status = IF data.qc_initials = "AB" THEN QC ELSE @]]
    /\ UNCHANGED <<history, evidence, session, clock, nextId, committed, results>>

\* JobRepository.update: setattr for every field the request carries.
update(job_id, data) ==
    /\ get(job_id) # NoJob
    /\ jobs' = [jobs EXCEPT ![job_id] =
          [@ EXCEPT !.intake_condition =
                        IF data.intake_condition = "unset" THEN @
                        ELSE data.intake_condition,
                    !.qc_initials =
                        IF data.qc_initials = "unset" THEN @ ELSE data.qc_initials]]
    /\ UNCHANGED <<history, evidence, session, clock, nextId, committed, results>>

\* The QC technician is recorded on the job row.  The store is shared with
\* components outside the workflow; no request of the API assigns this column.
record_qc_technician(job_id, user_id) ==
    /\ get(job_id) # NoJob
    /\ jobs[job_id].qc_technician_id # user_id
    /\ jobs' = [jobs EXCEPT ![job_id].qc_technician_id = user_id]
    /\ UNCHANGED <<history, evidence, session, clock, nextId, committed, results>>

\* A hard delete: the job row is removed and the foreign key of job_history
\* (ON DELETE CASCADE) removes its history rows with it.
delete_cascade(job_id) ==
    /\ get(job_id) # NoJob
    /\ jobs' = [jobs EXCEPT ![job_id] = NoJob]
    /\ history' = [history EXCEPT ![job_id] = <<>>]
    /\ UNCHANGED <<evidence, session, clock, nextId, committed, results>>

\* JobRepository.delete: soft delete.
delete(job_id) ==
    /\ get(job_id) # NoJob
    /\ \E now \in NowSet :
         /\ jobs' = [jobs EXCEPT ![job_id].deleted_at = now]
         /\ clock' = now
    /\ UNCHANGED <<history, evidence, session, nextId, committed, results>>

\* upload_evidence: a new evidence row of the job.  The row has no stage
\* column; stage records the stage the job was in when the row was captured.
upload_evidence(job_id) ==
    /\ get(job_id) # NoJob
    /\ Len(evidence[job_id]) + 1 \in EvidenceIds
    /\ evidence' = [evidence EXCEPT ![job_id] =
          Append(@, [stage |-> get(job_id).status, superseded_at |-> NoTime])]
    /\ UNCHANGED <<jobs, history, session, clock, nextId, committed, results>>

\* An evidence row is superseded by a newer one: superseded_at is stamped.
supersede_evidence(job_id, i) ==
    /\ i \in 1..Len(evidence[job_id])
    /\ evidence[job_id][i].superseded_at = NoTime
    /\ evidence' = [evidence EXCEPT ![job_id][i].superseded_at = clock]
    /\ UNCHANGED <<jobs, history, session, clock, nextId, committed, results>>

\* Time passes.
Tick ==
    /\ clock < MaxClock
    /\ clock' = clock + 1
    /\ UNCHANGED <<jobs, history, evidence, session, nextId, committed, results>>

\* JobService.transition has run update_status for target RESET and awaits
\* the diagnostics sync, with its writes flushed and not yet committed.
AwaitsSync(w) ==
    /\ session[w].pc = "pending"
    /\ session[w].op = "transition"
    /\ session[w].result.to_status = RESET

\* The ways PiceaService.sync_job_diagnostics ends: "pass" and "fail" are
\* the status Picea reports for the test step, stored before the sync
\* commits the session itself; "no_data" returns False (the Picea client
\* returned nothing) and the request's transaction commits; "raised" is an
\* exception out of the payload handling or the store, before the commit.
SyncOutcomes == {"pass", "fail", "no_data", "raised"}

\* PiceaService.sync_job_diagnostics, awaited inside JobService.transition on
\* the session that holds the transition's writes.  Nothing between the sync
\* and the route handler catches an exception, so the request ends without a
\* commit and the session's writes are discarded.
sync_job_diagnostics(w, outcome) ==
    /\ AwaitsSync(w)
    /\ LET s == session[w] IN
       IF outcome = "raised"
       THEN /\ session' = [session EXCEPT ![w] = Done(s.op, s.job, "error", NoResult)]
            /\ UNCHANGED <<jobs, history, committed, results>>
       ELSE /\ jobs' = [jobs EXCEPT ![s.job] = Apply(@, s.write)]
            /\ history' = [history EXCEPT ![s.job] = @ \o s.hist]
            /\ committed' = [committed EXCEPT ![s.job] = @ + 1]
            /\ results' = IF outcome = "no_data" THEN results
                          ELSE [results EXCEPT ![s.job] = outcome]
            /\ session' = [session EXCEPT ![w] = Done(s.op, s.job, "success", s.result)]
    /\ UNCHANGED <<evidence, clock, nextId>>

\* The statuses a submitted test result may carry.
TestResultStatus == {"pass", "fail"}

\* submit_step_result: the test result of the job's step is stored or
\* replaced, and committed.
submit_step_result(job_id, status) ==
    /\ jobs[job_id] # NoJob
    /\ results' = [results EXCEPT ![job_id] = status]
    /\ UNCHANGED <<jobs, history, evidence, session, clock, nextId, committed>>

\* POST /picea/sync/{job_id}: the diagnostics sync on a session of its own,
\* storing the status Picea reports for the test step.
sync_diagnostics(job_id, status) ==
    /\ jobs[job_id] # NoJob
    /\ results' = [results EXCEPT ![job_id] = status]
    /\ UNCHANGED <<jobs, history, evidence, session, clock, nextId, committed>>

\* The workflow of one job, served by concurrent workers.
Next ==
    \/ \E w \in Workers, j \in JobIds, t \in JobStatus, u \in Users :
          Len(history[j]) < MaxHist /\ TransitionBegin(w, j, t, u, NULL)
    \/ \E w \in Workers, ic \in {NULL, "set"}, u \in Users :
          nextId = 0 /\ CreateBegin(w, ic, u)
    \/ \E w \in Workers : Commit(w)
    \/ \E w \in Workers : Rollback(w)
    \/ \E w \in Workers : Return(w)
    \/ \E j \in JobIds, d \in JobUpdate : d.qc_initials = "unset" /\ update(j, d)
    \/ \E j \in JobIds : upload_evidence(j)
    \/ \E j \in JobIds, i \in EvidenceIds : supersede_evidence(j, i)

Spec == Init /\ [][Next]_vars

\* Concurrent creation of jobs, singly and in batches, and the first
\* transition of each job.
NextCreate ==
    \/ \E w \in Workers, ic \in {NULL, "set"}, u \in Users : CreateBegin(w, ic, u)
    \/ \E w \in Workers, n \in 1..MaxBatch, u \in Users : CreateBatchBegin(w, n, "set", u)
    \/ \E w \in Workers, j \in JobIds, t \in {RESET, FAILED}, u \in Users :
          Len(history[j]) = 1 /\ TransitionBegin(w, j, t, u, NULL)
    \/ \E w \in Workers : Commit(w)
    \/ \E w \in Workers : Rollback(w)
    \/ \E w \in Workers : Return(w)

SpecCreate == Init /\ [][NextCreate]_vars

\* The history length up to which the forward path accepts requests.
MaxHistQC == 5

\* One job on the forward path INTAKE, RESET, FUNCTIONAL, QC, COMPLETED, with
\* the evidence upload and the QC sign-off it needs on the way.
NextQC ==
    \/ \E w \in Workers, u \in Users : nextId = 0 /\ CreateBegin(w, "set", u)
    \/ \E w \in Workers, j \in JobIds, t \in {RESET, FUNCTIONAL, QC, COMPLETED},
          u \in Users :
          Len(history[j]) < MaxHistQC /\ TransitionBegin(w, j, t, u, NULL)
    \/ \E w \in Workers : Commit(w)
    \/ \E w \in Workers : Return(w)
    \/ \E j \in JobIds, d \in JobUpdate :
          d.intake_condition = "unset" /\ d.qc_initials # "unset" /\ update(j, d)
    \/ \E j \in JobIds, u \in Users : record_qc_technician(j, u)
    \/ \E j \in JobIds : upload_evidence(j)

SpecQC == Init /\ [][NextQC]_vars

\* The history length up to which the sequential workflow accepts requests.
MaxHistSeq == 4

\* One job served by a single worker, one request after the other, while
\* time passes.
NextSeq ==
    \/ \E ic \in {NULL, "set"}, u \in Users : nextId = 0 /\ CreateBegin("w1", ic, u)
    \/ \E j \in JobIds, t \in JobStatus, u \in Users :
          Len(history[j]) < MaxHistSeq /\ TransitionBegin("w1", j, t, u, NULL)
    \/ Commit("w1")
    \/ Return("w1")
    \/ Tick

SpecSeq == Init /\ [][NextSeq]_vars

\* One job moving between INTAKE, RESET and ON_HOLD, where every transition
\* into RESET triggers the diagnostics sync before its request ends.
NextSync ==
    \/ \E w \in Workers, u \in Users : nextId = 0 /\ CreateBegin(w, "set", u)
    \/ \E w \in Workers, j \in JobIds, t \in {RESET, ON_HOLD, FAILED}, u \in Users :
          Len(history[j]) < MaxHist /\ TransitionBegin(w, j, t, u, NULL)
    \/ \E w \in Workers : ~AwaitsSync(w) /\ Commit(w)
    \/ \E w \in Workers, o \in SyncOutcomes : sync_job_diagnostics(w, o)
    \/ \E w \in Workers : Return(w)

SpecSync == Init /\ [][NextSync]_vars

\* One job between INTAKE, RESET and ON_HOLD, with every request that
\* writes to the job or its rows besides the transition: PATCH, soft delete,
\* test-result submission and the diagnostics sync.
NextFrame ==
    \/ \E w \in Workers, u \in Users : nextId = 0 /\ CreateBegin(w, "set", u)
    \/ \E w \in Workers, j \in JobIds, t \in {RESET, ON_HOLD, FAILED}, u \in Users :
          Len(history[j]) < MaxHist /\ TransitionBegin(w, j, t, u, NULL)
    \/ \E w \in Workers : ~AwaitsSync(w) /\ Commit(w)
    \/ \E w \in Workers, o \in SyncOutcomes : sync_job_diagnostics(w, o)
    \/ \E w \in Workers : Return(w)
    \/ \E j \in JobIds, d \in JobUpdate : update(j, d)
    \/ \E j \in JobIds : delete(j)
    \/ \E j \in JobIds, st \in TestResultStatus : submit_step_result(j, st)
    \/ \E j \in JobIds, st \in TestResultStatus : sync_diagnostics(j, st)

SpecFrame == Init /\ [][NextFrame]_vars

\* One job served by concurrent workers while time passes between the
\* moment a request reads the clock and the moment it commits.
NextTimed ==
    \/ \E w \in Workers, u \in Users : nextId = 0 /\ CreateBegin(w, "set", u)
    \/ \E w \in Workers, j \in JobIds, t \in {RESET, ON_HOLD, FAILED}, u \in Users :
          Len(history[j]) < MaxHist /\ TransitionBegin(w, j, t, u, NULL)
    \/ \E w \in Workers : Commit(w)
    \/ \E w \in Workers : Return(w)
    \/ Tick

SpecTimed == Init /\ [][NextTimed]_vars

\* One job and one worker, with requests for every target stage and every
\* write that changes what the guards read: the intake condition, the QC
\* initials, the QC technician and the evidence.
NextResult ==
    \/ \E ic \in {NULL, "set"}, u \in Users : nextId = 0 /\ CreateBegin("w1", ic, u)
    \/ \E j \in JobIds, t \in JobStatus, u \in Users :
          Len(history[j]) < MaxHistQC /\ TransitionBegin("w1", j, t, u, NULL)
    \/ Commit("w1")
    \/ Return("w1")
    \/ \E j \in JobIds, d \in JobUpdate : update(j, d)
    \/ \E j \in JobIds, u \in Users : record_qc_technician(j, u)
    \/ \E j \in JobIds : upload_evidence(j)

SpecResult == Init /\ [][NextResult]_vars

\* One job and the public operations alone: create, PATCH with the JobUpdate
\* fields, evidence upload and non-forced transition requests for every
\* target stage.
NextPublic ==
    \/ \E ic \in {NULL, "set"}, u \in Users : nextId = 0 /\ CreateBegin("w1", ic, u)
    \/ \E j \in JobIds, t \in JobStatus, u \in Users :
          Len(history[j]) < MaxHistQC /\ TransitionBegin("w1", j, t, u, NULL)
    \/ Commit("w1")
    \/ Return("w1")
    \/ \E j \in JobIds, d \in JobUpdate : update(j, d)
    \/ \E j \in JobIds : upload_evidence(j)

SpecPublic == Init /\ [][NextPublic]_vars

----------------------------------------------------------------------------
\* Steps of the request workers, as seen in a pair of states.

\* Worker w took a transition request for a job that exists.
BeginsTransition(w) ==
    /\ session[w].pc = "idle"
    /\ session'[w].op = "transition"
    /\ session'[w].outcome # "not_found"

\* Worker w committed a transition request.
CommitsTransition(w) ==
    /\ session[w].pc = "pending"
    /\ session[w].op = "transition"
    /\ session'[w].outcome = "success"

----------------------------------------------------------------------------
\* C1: a non-forced transition request for a job in stage S succeeds only if
\* the target is in TRANSITIONS[S] and the guards of the pair (S, target) pass;
\* every other request is answered with success = false and an error naming
\* the structural or guard failure, and leaves the job and its history as
\* they were.  A stored stage changes only when a successful request commits.
C1_Decision(w) ==
    LET r == session'[w].result
        j == session'[w].job
        S == jobs[j].status
    IN  /\ r.from_status = S
        /\ r.success =>
              /\ session'[w].pc = "pending"
              /\ r.to_status \in Range(TRANSITIONS[S])
              /\ _run_guards(j, S, r.to_status, NULL) = <<>>
              /\ session'[w].write.status = r.to_status
        /\ ~r.success =>
              /\ session'[w].pc = "done"
              /\ session'[w].outcome = "rejected"
              /\ r.to_status = NULL
              /\ \/ \E T \in JobStatus :
                       /\ T \notin Range(TRANSITIONS[S])
                       /\ r.errors = <<StructuralError(S, T)>>
                 \/ \E T \in Range(TRANSITIONS[S]) :
                       /\ _run_guards(j, S, T, NULL) # <<>>
                       /\ r.errors = _run_guards(j, S, T, NULL)
        /\ jobs' = jobs
        /\ history' = history

C1_StageChange(j) ==
    (jobs[j] # NoJob /\ jobs'[j].status # jobs[j].status) =>
        \E w \in Workers :
            /\ CommitsTransition(w)
            /\ session[w].job = j
            /\ session[w].result.success
            /\ session[w].result.to_status = jobs'[j].status
            /\ session[w].result.to_status \in Range(TRANSITIONS[session[w].result.from_status])

----------------------------------------------------------------------------
\* C2: once a job has entered COMPLETED or FAILED its stage never changes
\* again (and every transition request that loads it in such a stage is
\* rejected structurally).
C2_TerminalRejects(w) ==
    (BeginsTransition(w) /\ jobs[session'[w].job].status \in {COMPLETED, FAILED}) =>
        /\ session'[w].outcome = "rejected"
        /\ \E T \in JobStatus :
              session'[w].result.errors =
                  <<StructuralError(jobs[session'[w].job].status, T)>>

C2_TerminalIsFinal ==
    [][/\ \A j \in JobIds :
            (jobs[j] # NoJob /\ jobs[j].status \in {COMPLETED, FAILED}) =>
                jobs'[j].status = jobs[j].status
       /\ \A w \in Workers : C2_TerminalRejects(w)]_vars

\* The second half alone: a request that loads a terminal stage is rejected.
C2_TerminalRequestsRejected ==
    [][\A w \in Workers : C2_TerminalRejects(w)]_vars

----------------------------------------------------------------------------
\* C3: of two transition requests that both read the job in the same stage,
\* at most one commits a stage change and a history record; the other, whose
\* view of the stage is stale by then, is rejected and overwrites nothing.
\* So a request commits only while the stored stage is still the one it read.
C3_NoStaleCommit ==
    [][\A w \in Workers :
          CommitsTransition(w) =>
              session[w].result.from_status = jobs[session[w].job].status]_vars

----------------------------------------------------------------------------
\* The stage reached by replaying history records in order from a stage.
RECURSIVE Replay(_, _)
Replay(records, stage) ==
    IF records = <<>> THEN stage
    ELSE Replay(Tail(records), Head(records).to_status)

\* C4: in every reachable state, replaying a job's history records in their
\* insertion order, starting from the creation record, ends in the job's
\* current stage: the to_status of the last record is the stored status.
C4_HistoryReplay ==
    \A j \in JobIds :
        jobs[j] # NoJob =>
            /\ history[j] # <<>>
            /\ Head(history[j]).from_status = NULL
            /\ Replay(history[j], NULL) = jobs[j].status

\* A job with three records, the last one written from a stale view.
C4_Witness ==
    \E j \in JobIds :
        /\ jobs[j] # NoJob
        /\ Len(history[j]) >= 3
        /\ history[j][3].from_status # history[j][2].to_status

----------------------------------------------------------------------------
\* The records of a job that a transition wrote.
TransitionRecords(j) ==
    {i \in 1..Len(history[j]) : history[j][i].from_status # NULL}

\* C5: every successful transition appends exactly one history record with
\* the from stage, the target, the actor, the time and the notes of the call,
\* and a failed one appends none: in every reachable state the number of a
\* job's records with non-null from_status equals the number of successful
\* transitions committed on it.
C5_Count ==
    \A j \in JobIds : Cardinality(TransitionRecords(j)) = committed[j]

C5_Step(w) ==
    LET j == session'[w].job IN
    /\ CommitsTransition(w) =>
          /\ Len(history'[j]) = Len(history[j]) + 1
          /\ SubSeq(history'[j], 1, Len(history[j])) = history[j]
          /\ LET rec == history'[j][Len(history'[j])] IN
                /\ rec.from_status = session[w].result.from_status
                /\ rec.to_status = session[w].result.to_status
                /\ rec.changed_by_id \in Users
                /\ rec.changed_at \in 1..clock
                /\ rec.notes = NULL
    /\ (session[w].pc = "idle" /\ session'[w].op = "transition"
           /\ ~session'[w].result.success) =>
          /\ history' = history
          /\ session'[w].hist = <<>>

C5_OneRecordPerSuccess ==
    []C5_Count /\ [][\A w \in Workers : C5_Step(w)]_vars

\* Two transitions committed on a job while a worker holds a rejection.
C5_Witness ==
    \E j \in JobIds : \E w \in Workers :
        /\ committed[j] = 2
        /\ session[w].outcome = "rejected"
        /\ session[w].job = j

----------------------------------------------------------------------------
\* C6: creating a job, with create or as one job of create_batch, yields a
\* job in INTAKE whose history is exactly one record (null -> INTAKE); a null
\* from_status appears in that creation record only, never in a later one.
C6_Created(j) ==
    (jobs[j] = NoJob /\ jobs'[j] # NoJob) =>
        /\ jobs'[j].status = INTAKE
        /\ Len(history'[j]) = 1
        /\ history'[j][1].from_status = NULL
        /\ history'[j][1].to_status = INTAKE

C6_NullOnlyAtCreation ==
    \A j \in JobIds :
        IF jobs[j] = NoJob
        THEN history[j] = <<>>
        ELSE /\ history[j] # <<>>
             /\ history[j][1].from_status = NULL
             /\ history[j][1].to_status = INTAKE
             /\ \A i \in 2..Len(history[j]) : history[j][i].from_status # NULL

C6_CreationRecord ==
    []C6_NullOnlyAtCreation /\ [][\A j \in JobIds : C6_Created(j)]_vars

\* A job made by create_batch that has moved on, next to one made by create.
C6_Witness ==
    \E j, k \in JobIds :
        /\ jobs[j] # NoJob /\ jobs[k] # NoJob
        /\ history[j][1].notes = "Job created (Batch)"
        /\ Len(history[j]) >= 2
        /\ history[k][1].notes = "Job created"

----------------------------------------------------------------------------
\* C7: the status write and the history append of one transition commit or
\* fail together: between any two committed states a job's stage is changed
\* exactly when one record with that stage as to_status is appended, and a
\* request cancelled or aborted before its commit leaves jobs and history
\* exactly as they were.
C7_Together(j) ==
    jobs[j] # NoJob =>
        /\ jobs'[j].status # jobs[j].status => history'[j] # history[j]
        /\ history'[j] # history[j] =>
              /\ Len(history'[j]) = Len(history[j]) + 1
              /\ SubSeq(history'[j], 1, Len(history[j])) = history[j]
              /\ history'[j][Len(history'[j])].to_status = jobs'[j].status

C7_Aborted(w) ==
    (session[w].pc = "pending" /\ session'[w].outcome = "aborted") =>
        /\ jobs' = jobs
        /\ history' = history
        /\ session'[w].hist = <<>>
        /\ session'[w].write = Idle.write

C7_AllOrNothing ==
    [][/\ \A j \in JobIds : C7_Together(j)
       /\ \A w \in Workers : C7_Aborted(w)]_vars

\* One transition of a job was aborted while another one committed.
C7_Witness ==
    \E w1, w2 \in Workers :
        /\ session[w1].op = "transition" /\ session[w1].outcome = "aborted"
        /\ session[w2].op = "transition" /\ session[w2].outcome = "success"
        /\ session[w1].job = session[w2].job

----------------------------------------------------------------------------
\* The ticket numbers assigned to jobs: those of stored jobs and those of the
\* jobs a creation request holds in its session.
TicketsAssigned ==
    {<<j, jobs[j].ticket_id>> : j \in {k \in JobIds : jobs[k] # NoJob}}
    \cup UNION {{<<session[w].new[i].id, session[w].new[i].row.ticket_id>> :
                    i \in 1..Len(session[w].new)} : w \in Workers}

\* C8: ticket numbers are never duplicated: in any interleaving of concurrent
\* create and create_batch requests no two jobs are assigned the same ticket
\* number.
C8_TicketsUnique ==
    \A a, b \in TicketsAssigned : a[2] = b[2] => a[1] = b[1]

\* What the unique index leaves of it: stored jobs never share a ticket
\* number, and a stored job keeps the number it was created with.
C8_StoredTicketsUnique ==
    \A j, k \in JobIds :
        (jobs[j] # NoJob /\ jobs[k] # NoJob /\ jobs[j].ticket_id = jobs[k].ticket_id)
            => j = k

----------------------------------------------------------------------------
\* C9: RESET -> FUNCTIONAL succeeds only if the job has at least one evidence
\* row of the RESET stage that is not superseded; with none the request fails
\* with the reset-evidence guard error.  Evidence of another stage of the job
\* and superseded evidence do not count.
ResetEvidence(j) ==
    {i \in 1..Len(evidence[j]) :
        evidence[j][i].stage = RESET /\ evidence[j][i].superseded_at = NoTime}

C9_Step(w) ==
    LET j == session'[w].job IN
    (BeginsTransition(w) /\ jobs[j].status = RESET) =>
        /\ (session'[w].result.success /\ session'[w].result.to_status = FUNCTIONAL)
              => ResetEvidence(j) # {}
        /\ session'[w].result.errors = <<ErrReset>> => ResetEvidence(j) = {}

C9_ResetEvidenceScoped ==
    [][\A w \in Workers : C9_Step(w)]_vars

\* The part that holds: superseded evidence alone does not satisfy the guard.
C9_SupersededDoesNotCount ==
    [][\A w \in Workers :
          LET j == session'[w].job IN
          (BeginsTransition(w) /\ jobs[j].status = RESET
             /\ session'[w].result.success
             /\ session'[w].result.to_status = FUNCTIONAL) =>
              \E i \in 1..Len(evidence[j]) : evidence[j][i].superseded_at = NoTime]_vars

----------------------------------------------------------------------------
\* C10: from INTAKE, a transition to RESET with an empty or absent
\* intake_condition fails with the intake guard error and leaves the stage
\* and the history unchanged; once intake_condition is set the same call
\* succeeds, stamps intake_completed_at and reset_started_at, and adds exactly
\* one history record (INTAKE -> RESET).
C10_Guard ==
    \A j \in JobIds : \A u \in Users :
        (get(j) # NoJob /\ get(j).status = INTAKE) =>
            LET r == transition(j, INTAKE, RESET, u, FALSE, clock) IN
            IF Truthy(get(j).intake_condition)
            THEN r.success /\ r.to_status = RESET
            ELSE ~r.success /\ r.to_status = NULL /\ r.errors = <<ErrIntake>>

C10_Step(w) ==
    LET j == session'[w].job IN
    /\ (BeginsTransition(w) /\ session'[w].result.errors = <<ErrIntake>>) =>
          /\ jobs[j].status = INTAKE
          /\ ~Truthy(jobs[j].intake_condition)
          /\ session'[w].outcome = "rejected"
          /\ jobs' = jobs
          /\ history' = history
    /\ (BeginsTransition(w) /\ jobs[j].status = INTAKE
           /\ session'[w].result.success /\ session'[w].result.to_status = RESET) =>
          Truthy(jobs[j].intake_condition)
    /\ (CommitsTransition(w) /\ session[w].result.from_status = INTAKE
           /\ session[w].result.to_status = RESET) =>
          /\ jobs'[j].status = RESET
          /\ jobs'[j].intake_completed_at # NoTime
          /\ jobs'[j].reset_started_at # NoTime
          /\ Len(history'[j]) = Len(history[j]) + 1
          /\ SubSeq(history'[j], 1, Len(history[j])) = history[j]
          /\ history'[j][Len(history'[j])].from_status = INTAKE
          /\ history'[j][Len(history'[j])].to_status = RESET
          /\ history'[j][Len(history'[j])].changed_at = jobs'[j].reset_started_at

C10_IntakeGuard ==
    []C10_Guard /\ [][\A w \in Workers : C10_Step(w)]_vars

\* One request for the job was rejected by the intake guard and another one
\* moved it to RESET.
C10_Witness ==
    \E w1, w2 \in Workers : \E j \in JobIds :
        /\ session[w1].job = j /\ session[w1].result.errors = <<ErrIntake>>
        /\ session[w2].job = j /\ session[w2].outcome = "success"
        /\ session[w2].result.from_status = INTAKE
        /\ session[w2].result.to_status = RESET
        /\ jobs[j] # NoJob
        /\ jobs[j].status = RESET
        /\ jobs[j].intake_completed_at # NoTime
        /\ jobs[j].reset_started_at # NoTime
        /\ Len(history[j]) = 2

----------------------------------------------------------------------------
\* C11: a job in QC that lacks the QC technician or the QC initials cannot
\* move to COMPLETED: the request fails with the QC sign-off error and the
\* stage stays QC.  Once both are recorded on the job the same request
\* succeeds, completed_at is stamped and the stage becomes COMPLETED.
SignedOff(job) == Truthy(job.qc_initials) /\ Truthy(job.qc_technician_id)

C11_Guard ==
    \A j \in JobIds : \A u \in Users :
        (get(j) # NoJob /\ get(j).status = QC) =>
            LET r == transition(j, QC, COMPLETED, u, FALSE, clock) IN
            IF SignedOff(get(j))
            THEN r.success /\ r.to_status = COMPLETED
            ELSE ~r.success /\ r.to_status = NULL /\ r.errors = <<ErrQC>>

C11_Step(w) ==
    LET j == session'[w].job IN
    /\ (BeginsTransition(w) /\ session'[w].result.errors = <<ErrQC>>) =>
          /\ jobs[j].status = QC
          /\ ~SignedOff(jobs[j])
          /\ session'[w].outcome = "rejected"
          /\ jobs' = jobs
          /\ history' = history
    /\ (BeginsTransition(w) /\ jobs[j].status = QC
           /\ session'[w].result.success /\ session'[w].result.to_status = COMPLETED) =>
          SignedOff(jobs[j])
    /\ (CommitsTransition(w) /\ session[w].result.from_status = QC
           /\ session[w].result.to_status = COMPLETED) =>
          /\ jobs'[j].status = COMPLETED
          /\ jobs'[j].completed_at # NoTime
          /\ jobs'[j].qc_completed_at # NoTime
          /\ Len(history'[j]) = Len(history[j]) + 1
          /\ history'[j][Len(history'[j])].to_status = COMPLETED

C11_QCSignOff ==
    []C11_Guard /\ [][\A w \in Workers : C11_Step(w)]_vars

\* One request for the job was rejected by the QC guard and another one,
\* after the sign-off, completed it.
C11_Witness ==
    \E w1, w2 \in Workers : \E j \in JobIds :
        /\ session[w1].job = j /\ session[w1].result.errors = <<ErrQC>>
        /\ session[w2].job = j /\ session[w2].outcome = "success"
        /\ session[w2].result.from_status = QC
        /\ session[w2].result.to_status = COMPLETED
        /\ jobs[j] # NoJob
        /\ jobs[j].status = COMPLETED
        /\ jobs[j].completed_at # NoTime
        /\ SignedOff(jobs[j])

----------------------------------------------------------------------------
\* The per-stage timestamp columns of a job.
TimestampFields ==
    {"intake_started_at", "intake_completed_at",
     "reset_started_at", "reset_completed_at",
     "functional_started_at", "functional_completed_at",
     "qc_started_at", "qc_completed_at", "completed_at"}

\* C12: each per-stage timestamp of a job is set at most once: once it is
\* non-null, no later operation changes its value or clears it.
C12_TimestampsSetOnce ==
    [][\A j \in JobIds : \A f \in TimestampFields :
          (jobs[j] # NoJob /\ jobs[j][f] # NoTime) => jobs'[j][f] = jobs[j][f]]_vars

----------------------------------------------------------------------------
\* The stages in which work on the device is done.
ActiveStages == {INTAKE, RESET, FUNCTIONAL, QC}

\* C13: stage and timestamps stay consistent: every successful transition
\* from an active stage S to an active stage T stamps, at its commit, the
\* completed_at of S and the started_at of T.
C13_Step(w) ==
    LET j == session[w].job
        S == session[w].result.from_status
        T == session[w].result.to_status
        at == history'[j][Len(history'[j])].changed_at
    IN  (CommitsTransition(w) /\ S \in ActiveStages /\ T \in ActiveStages) =>
            /\ jobs'[j].status = T
            /\ jobs'[j][get_timestamp_field(S, FALSE)] = at
            /\ jobs'[j][get_timestamp_field(T, TRUE)] = at

C13_StampsFollowStages ==
    [][\A w \in Workers : C13_Step(w)]_vars

\* The forward edges alone: leaving S for the next stage of the pipeline.
C13_ForwardEdgesStamped ==
    [][\A w \in Workers :
          (session[w].result.from_status # QC
             \/ session[w].result.to_status # FUNCTIONAL) => C13_Step(w)]_vars

----------------------------------------------------------------------------
\* C14: COMPLETED and FAILED are terminal for every caller: no transition out
\* of them succeeds, except through the override force = TRUE, which bypasses
\* the table and the guards and whose use is logged distinctly: the result or
\* the history record of a forced transition differs from that of an ordinary
\* transition between the same stages.
C14_TerminalAndOverride(j, T, u) ==
    LET S == get(j).status
        ordinary == transition(j, S, T, u, FALSE, clock)
        forced == transition(j, S, T, u, TRUE, clock)
    IN  /\ S \in {COMPLETED, FAILED} => ~ordinary.success
        /\ forced.success
        /\ forced.from_status = S
        /\ forced.to_status = T

C14_Distinct(j, T, u) ==
    LET S == get(j).status
        ordinary == transition(j, S, T, u, FALSE, clock)
        forced == transition(j, S, T, u, TRUE, clock)
    IN  ordinary.success =>
            \/ forced # ordinary
            \/ update_status(get(j), forced.to_status, u, NULL, forced.timestamp).hist
                  # update_status(get(j), ordinary.to_status, u, NULL,
                                  ordinary.timestamp).hist

C14_OverrideLoggedDistinctly ==
    \A j \in JobIds : \A T \in JobStatus : \A u \in Users :
        get(j) # NoJob =>
            /\ C14_TerminalAndOverride(j, T, u)
            /\ C14_Distinct(j, T, u)

\* The part that holds: terminal without the override, bypass with it.
C14_TerminalUnlessForced ==
    \A j \in JobIds : \A T \in JobStatus : \A u \in Users :
        get(j) # NoJob => C14_TerminalAndOverride(j, T, u)

----------------------------------------------------------------------------
\* C15: a requested transition whose target is not in the target set of the
\* source stage is rejected with the structural error before any guard runs:
\* the guards are not called, no job or evidence read is made for them, and
\* the errors returned are the structural error alone.
C15_Rejected(j, S, T, u) ==
    LET r == transition(j, S, T, u, FALSE, clock) IN
    /\ ~r.success
    /\ r.from_status = S
    /\ r.to_status = NULL
    /\ r.errors = << <<"Cannot transition", S, T>> >>
    /\ transition_calls(S, T, FALSE) = <<"can_transition">>

C15_StructuralFirst ==
    \A j \in JobIds : \A S, T \in JobStatus : \A u \in Users :
        (get(j) # NoJob /\ T \notin Range(TRANSITIONS[S])) => C15_Rejected(j, S, T, u)

\* A worker holds a structural rejection for a job in QC that is not signed
\* off, so that the QC guard would have had something to report.
C15_Witness ==
    \E w \in Workers : \E T \in JobStatus :
        /\ session[w].outcome = "rejected"
        /\ session[w].result.errors = << <<"Cannot transition", QC, T>> >>
        /\ session[w].job \in JobIds
        /\ get(session[w].job) # NoJob
        /\ get(session[w].job).status = QC
        /\ ~SignedOff(get(session[w].job))

----------------------------------------------------------------------------
\* What a caller sees of a failed call, apart from the time of the call.
Failure(r) == <<r.success, r.from_status, r.to_status, r.errors>>

\* The targets that are illegal from a stage.
IllegalTargets(S) == JobStatus \ Range(TRANSITIONS[S])

\* C16: rejection is idempotent: a transition request with an illegal pair
\* (S, T), that is every rejected request that no guard rejected, fails with
\* the structural error for (S, T), leaves the job's stage, timestamps and
\* history as they were, and the same request made again fails in the same
\* way, any number of times.
C16_Step(w, j) ==
    LET S == jobs[j].status
    IN  (BeginsTransition(w) /\ session'[w].job = j
           /\ session'[w].outcome = "rejected"
           /\ session'[w].result.errors \notin {<<ErrIntake>>, <<ErrReset>>, <<ErrQC>>}) =>
            /\ \E T \in IllegalTargets(S) :
                  session'[w].result.errors = << <<"Cannot transition", S, T>> >>
            /\ session'[w].pc = "done"
            /\ jobs' = jobs
            /\ history' = history
            /\ \A T \in IllegalTargets(S) : \A u \in Users :
                  /\ Failure(transition(j, S, T, u, FALSE, clock))
                        = <<FALSE, S, NULL, << <<"Cannot transition", S, T>> >> >>
                  /\ Failure(transition(j, S, T, u, FALSE, clock))'
                        = Failure(transition(j, S, T, u, FALSE, clock))

C16_RejectionIdempotent ==
    [][\A w \in Workers : \A j \in JobIds : C16_Step(w, j)]_vars

\* Both workers hold the same structural rejection for the same job, whose
\* history is still the creation record alone.
C16_Witness ==
    \E j \in JobIds : \E T \in JobStatus :
        /\ jobs[j] # NoJob
        /\ Len(history[j]) = 1
        /\ \A w \in Workers :
              /\ session[w].job = j
              /\ session[w].outcome = "rejected"
              /\ session[w].result.errors = << <<"Cannot transition", INTAKE, T>> >>

----------------------------------------------------------------------------
\* C17: a side effect that fails never reverses the transition: when the
\* diagnostics sync triggered on entering RESET ends, whether it synced,
\* found nothing or raised, the job's stage is RESET afterwards and the
\* transition's history record is the last record of the job.
C17_Step(w) ==
    LET j == session[w].job
    IN  (AwaitsSync(w) /\ session'[w].pc = "done") =>
            /\ jobs'[j].status = RESET
            /\ history'[j] = history[j] \o session[w].hist

C17_SideEffectKeepsTransition == [][\A w \in Workers : C17_Step(w)]_vars

----------------------------------------------------------------------------
\* The stage and the per-stage timestamps of a job row.
StageColumns(row) == [f \in {"status"} \cup TimestampFields |-> row[f]]

\* C18: only the transition path changes a job's stage or appends to its
\* history: the stage, the per-stage timestamps and the history of a stored
\* job change only in the step that commits a transition request whose state
\* machine result was success; PATCH, soft delete, test-result submission
\* and the diagnostics sync leave them as they were; and a request holds the
\* writes of update_status only after the state machine returned success for
\* that same request.
C18_Change(j) ==
    (jobs[j] # NoJob
       /\ (StageColumns(jobs'[j]) # StageColumns(jobs[j]) \/ history'[j] # history[j])) =>
        \E w \in Workers :
            /\ CommitsTransition(w)
            /\ session[w].job = j
            /\ session[w].result.success
            /\ session[w].result.to_status \in Range(TRANSITIONS[session[w].result.from_status])
            /\ jobs'[j] = Apply(jobs[j], StatusWrite(session[w].result.to_status,
                                                    session[w].result.timestamp))
            /\ history'[j] = history[j] \o session[w].hist

C18_Executed(w) ==
    (session'[w] # session[w] /\ session'[w].write # Idle.write) =>
        /\ BeginsTransition(w)
        /\ session'[w].result.success
        /\ session'[w].result =
              transition(session'[w].job, jobs[session'[w].job].status,
                         session'[w].result.to_status, NULL, FALSE, clock)
        /\ session'[w].write = StatusWrite(session'[w].result.to_status, clock)

C18_OnlyTransitionPath ==
    [][/\ \A j \in JobIds : C18_Change(j)
       /\ \A w \in Workers : C18_Executed(w)]_vars

\* The job was patched, its test result stored and the row soft-deleted after
\* one committed transition, and it still is where that transition left it.
C18_Witness ==
    \E j \in JobIds :
        /\ jobs[j] # NoJob
        /\ jobs[j].deleted_at # NoTime
        /\ jobs[j].qc_initials = "AB"
        /\ results[j] = "fail"
        /\ jobs[j].status = RESET
        /\ Len(history[j]) = 2

----------------------------------------------------------------------------
\* The preconditions of the pair (S, T) that job j does not meet.
UnmetPreconditions(j, S, T) ==
    IF S = INTAKE /\ T = RESET
    THEN {c \in {"intake_condition"} : ~Truthy(jobs[j].intake_condition)}
    ELSE IF S = RESET /\ T = FUNCTIONAL
    THEN {c \in {"reset_evidence"} : get_for_job_stage(j, RESET) = <<>>}
    ELSE IF S = QC /\ T = COMPLETED
    THEN {c \in {"qc_initials", "qc_technician_id"} : ~Truthy(jobs[j][c])}
    ELSE {}

----------------------------------------------------------------------------
\* C20: the history of a job is in chronological order: the changed_at
\* values of its records are non-decreasing in insertion order, so no record
\* is inserted with a changed_at earlier than that of a record already there,
\* also when the job's transitions run in concurrent workers.
C20_HistoryChronological ==
    \A j \in JobIds : \A i, k \in 1..Len(history[j]) :
        i < k => history[j][i].changed_at <= history[j][k].changed_at

----------------------------------------------------------------------------
\* C21: get_history returns the history of a job in chronological order:
\* the creation record (null to INTAKE) first and the most recent transition
\* last.
C21_HistoryReadChronological ==
    \A j \in JobIds :
        get(j) # NoJob =>
            \A r \in get_history(j) :
                /\ r[1].from_status = NULL
                /\ r[1].to_status = INTAKE
                /\ r[Len(r)] = history[j][Len(history[j])]

----------------------------------------------------------------------------
\* Sequence a is an initial part of sequence b.
IsPrefix(a, b) == Len(a) <= Len(b) /\ SubSeq(b, 1, Len(a)) = a

\* C22: the audit trail is append-only: no step edits or removes a history
\* record, so each job's history before a step is a prefix of its history
\* after the step (and hence of its history in every later state).
C22_AppendOnly == [][\A j \in JobIds : IsPrefix(history[j], history'[j])]_vars

\* A job with a full history was patched and then soft-deleted, and its
\* records are all still there.
C22_Witness ==
    \E j \in JobIds :
        /\ jobs[j] # NoJob
        /\ jobs[j].deleted_at # NoTime
        /\ jobs[j].intake_condition = "empty"
        /\ Len(history[j]) = MaxHist
        /\ history[j][1].from_status = NULL

----------------------------------------------------------------------------
\* The job row is stored and carries the soft-delete marker.
SoftDeleted(j) == jobs[j] # NoJob /\ jobs[j].deleted_at # NoTime

\* C23: a soft-deleted job is invisible to the workflow: once deleted_at is
\* set, every transition request taken for the job is answered not-found,
\* and no later step changes the job's stage or its history.
C23_Step(j) ==
    SoftDeleted(j) =>
        /\ jobs'[j].status = jobs[j].status
        /\ history'[j] = history[j]
        /\ \A w \in Workers :
              (session[w].pc = "idle" /\ session'[w].op = "transition"
                 /\ session'[w].job = j) =>
                  /\ session'[w].outcome = "not_found"
                  /\ ~session'[w].result.success

C23_DeletedIsInvisible == [][\A j \in JobIds : C23_Step(j)]_vars

----------------------------------------------------------------------------
\* C24: for an existing job and each of the seven target stages the state
\* machine answers with a result object, never with an exception: a failed
\* structural or guard check gives success = false and a non-empty error
\* list, and every success = true result has an empty error list and the
\* target as to_status.  The results held by the workers have that shape.
C24_Shape(r, S, T) ==
    /\ DOMAIN r = {"success", "from_status", "to_status", "timestamp",
                   "warnings", "errors"}
    /\ r.success \in BOOLEAN
    /\ r.from_status = S
    /\ r.success => r.errors = <<>> /\ r.to_status = T
    /\ ~r.success => Len(r.errors) >= 1 /\ r.to_status = NULL

C24_ResultNeverRaises ==
    /\ \A j \in JobIds : \A S, T \in JobStatus : \A u \in Users :
          get(j) # NoJob => C24_Shape(transition(j, S, T, u, FALSE, clock), S, T)
    /\ \A w \in Workers :
          (session[w].op = "transition" /\ session[w].outcome # "not_found") =>
              /\ session[w].outcome \in {"none", "success", "rejected"}
              /\ session[w].result.success <=> session[w].outcome # "rejected"
              /\ \E T \in JobStatus :
                    C24_Shape(session[w].result, session[w].result.from_status, T)

\* The worker holds a guard failure for QC to COMPLETED of a job in QC.
C24_Witness ==
    \E j \in JobIds :
        /\ get(j) # NoJob
        /\ jobs[j].status = QC
        /\ session["w1"].job = j
        /\ session["w1"].outcome = "rejected"
        /\ session["w1"].result.errors = <<ErrQC>>
        /\ Truthy(jobs[j].qc_initials)

----------------------------------------------------------------------------
\* The targets the workflow allows from each stage.
ExpectedTargets ==
    [S \in JobStatus |->
        CASE S = INTAKE     -> {RESET, FAILED, ON_HOLD}
          [] S = RESET      -> {FUNCTIONAL, FAILED, ON_HOLD}
          [] S = FUNCTIONAL -> {QC, FAILED, ON_HOLD}
          [] S = QC         -> {COMPLETED, FAILED, ON_HOLD, FUNCTIONAL}
          [] S = ON_HOLD    -> {INTAKE, RESET, FUNCTIONAL, QC}
          [] S = COMPLETED  -> {}
          [] S = FAILED     -> {}]

\* C25: get_valid_transitions(S) is a pure lookup into the transition table:
\* in every state with a stored job, whatever its guard data, it lists exactly the
\* targets of S, each once, and these are exactly the targets the structural
\* check admits; no guard is evaluated.
C25_ValidTransitionsIsLookup ==
    \A j \in JobIds : get(j) # NoJob =>
        \A S \in JobStatus :
            /\ Range(get_valid_transitions(S)) = ExpectedTargets[S]
            /\ Len(get_valid_transitions(S)) = Cardinality(ExpectedTargets[S])
            /\ \A T \in JobStatus :
                  T \in Range(get_valid_transitions(S)) <=> can_transition(S, T).ok

\* A job in QC without sign-off: COMPLETED is listed although the guard of
\* (QC, COMPLETED) rejects it.
C25_Witness ==
    \E j \in JobIds :
        /\ get(j) # NoJob
        /\ jobs[j].status = QC
        /\ ~SignedOff(jobs[j])
        /\ COMPLETED \in Range(get_valid_transitions(jobs[j].status))
        /\ _run_guards(j, QC, COMPLETED, NULL) = <<ErrQC>>
        /\ session["w1"].pc = "idle"

----------------------------------------------------------------------------
\* C26: any state can transition to FAILED or ON_HOLD: for a stored job in
\* stage S, the structural check admits S to FAILED and S to ON_HOLD.  The
\* terminal stages and the step from a stage to itself are left out, so the
\* statement is the weakest reading of "any state".
C26_AnyStateCanFailOrHold ==
    \A j \in JobIds :
        (get(j) # NoJob /\ jobs[j].status \notin {COMPLETED, FAILED}) =>
            \A T \in {FAILED, ON_HOLD} \ {jobs[j].status} :
                /\ can_transition(jobs[j].status, T).ok
                /\ T \in Range(get_valid_transitions(jobs[j].status))

----------------------------------------------------------------------------
\* The stages a job on hold can be resumed into.
ResumeTargets == {INTAKE, RESET, FUNCTIONAL, QC}

\* C27: resuming from ON_HOLD is permissive: for a stored job, whatever its
\* intake condition, evidence and QC sign-off and whatever its history, a
\* non-forced transition from ON_HOLD to INTAKE, RESET, FUNCTIONAL or QC
\* succeeds, no guard of the pair reads anything, and a request loaded in
\* ON_HOLD is rejected only for a target outside these four.
C27_ResumeIsPermissive ==
    /\ \A j \in JobIds : \A T \in ResumeTargets : \A u \in Users :
          get(j) # NoJob =>
              /\ transition(j, ON_HOLD, T, u, FALSE, clock).success
              /\ transition(j, ON_HOLD, T, u, FALSE, clock).to_status = T
              /\ _run_guards(j, ON_HOLD, T, u) = <<>>
              /\ GuardReads(ON_HOLD, T) = <<>>
    /\ \A w \in Workers :
          (session[w].op = "transition" /\ session[w].result.from_status = ON_HOLD
             /\ session[w].outcome = "rejected") =>
              \E T \in JobStatus \ ResumeTargets :
                  session[w].result.errors = <<StructuralError(ON_HOLD, T)>>

\* A job held in INTAKE with no intake condition, no evidence and no QC
\* sign-off was resumed straight into QC.
C27_Witness ==
    \E j \in JobIds :
        /\ get(j) # NoJob
        /\ jobs[j].status = QC
        /\ Len(history[j]) = 3
        /\ history[j][2].from_status = INTAKE
        /\ history[j][3].from_status = ON_HOLD
        /\ ~Truthy(jobs[j].intake_condition)
        /\ evidence[j] = <<>>
        /\ ~Truthy(jobs[j].qc_initials)

----------------------------------------------------------------------------
\* C28: every history record with a non-null from_status records an edge
\* of the transition table, and its from_status is the to_status of the
\* job's previous record; this holds in every reachable state, also when
\* transition requests for the same job interleave.
C28_HistoryIsChainOfEdges ==
    \A j \in JobIds : \A i \in 1..Len(history[j]) :
        history[j][i].from_status # NULL =>
            /\ history[j][i].to_status
                  \in Range(TRANSITIONS[history[j][i].from_status])
            /\ i > 1
            /\ history[j][i].from_status = history[j][i - 1].to_status

\* The part of C28 that the interleaving leaves intact: every record with a
\* non-null from_status is an edge of the table.
C28_RecordsAreEdges ==
    \A j \in JobIds : \A i \in 1..Len(history[j]) :
        history[j][i].from_status # NULL =>
            history[j][i].to_status \in Range(TRANSITIONS[history[j][i].from_status])

----------------------------------------------------------------------------
\* C29: in every reachable state (no transition is forced) a job whose stage
\* is COMPLETED has both the QC technician and the QC initials recorded, and
\* the last record of its history is QC to COMPLETED.
C29_CompletedIsSignedOff ==
    \A j \in JobIds :
        (jobs[j] # NoJob /\ jobs[j].status = COMPLETED) =>
            /\ SignedOff(jobs[j])
            /\ history[j][Len(history[j])].from_status = QC
            /\ history[j][Len(history[j])].to_status = COMPLETED

----------------------------------------------------------------------------
\* C30: COMPLETED is reachable through the public operations alone: every
\* field the guard of QC to COMPLETED reads can be set by a public
\* operation, so for a stored job in QC some PATCH leads to a state where
\* the guard accepts the transition to COMPLETED.
C30_GuardFieldsSettable ==
    \A j \in JobIds :
        (get(j) # NoJob /\ jobs[j].status = QC) =>
            \E d \in JobUpdate :
                ENABLED (/\ update(j, d)
                         /\ _run_guards(j, QC, COMPLETED, NULL)' = <<>>)

\* With the public operations alone no job is ever COMPLETED and no job ever
\* has a QC technician.
C30_NeverCompleted ==
    \A j \in JobIds :
        jobs[j] # NoJob =>
            /\ jobs[j].status # COMPLETED
            /\ jobs[j].qc_technician_id = NULL

====
